---- MODULE Spec2Model ----
(***************************************************************************)
(* Y-chromosome haplogroup classifier (proYHapLZ.py; YHapLZ.py carries the  *)
(* same classifier code over a larger tree text).                           *)
(*                                                                          *)
(* The model follows HaplogroupClassifier: the constructor parses the tree  *)
(* text and loads an ISOGG index table, load_vcf fills one sample's         *)
(* genotype map line by line, and classify_sample turns that map into one   *)
(* classification result.  Python dicts keep insertion order, and the code   *)
(* iterates them, so every dict whose order is iterated is modelled as a    *)
(* sequence of keys plus a function.  Confidence is kept in hundredths      *)
(* (0.85 is 85); Python's None is the string "None".                        *)
(***************************************************************************)
EXTENDS Integers, Sequences, FiniteSets, TLC

VARIABLES script, het_mode, isogg_file, phylo_tree, node_snps, snp_to_info,
          pos_to_haplo, sample_geno, results, args, ret

vars == <<script, het_mode, isogg_file, phylo_tree, node_snps, snp_to_info,
          pos_to_haplo, sample_geno, results, args, ret>>

\* the script that is run (its tree text) and the fields of the classifier
refdata == <<script, het_mode, isogg_file, phylo_tree, node_snps, snp_to_info,
             pos_to_haplo>>

\* a direct call of one method of the classifier: its arguments and its
\* return value
probe == <<args, ret>>

\* ------------------------------------------------------------------------
\* Generic helpers for Python dicts and lists
\* ------------------------------------------------------------------------
None == "None"

Range(s) == {s[i] : i \in 1..Len(s)}

\* d[k] = v: the key is added or its value replaced
Put(d, k, v) == (k :> v) @@ d

EmptyDict == [x \in {} |-> None]

Min(S) == CHOOSE x \in S : \A y \in S : x <= y

Max(S) == CHOOSE x \in S : \A y \in S : x >= y

RECURSIVE Flatten(_)
Flatten(ss) == IF ss = <<>> THEN <<>> ELSE Head(ss) \o Flatten(Tail(ss))

RECURSIVE Dedup(_)
\* keys of an insertion-ordered dict: each value once, at its first place
Dedup(s) ==
    IF s = <<>> THEN <<>>
    ELSE LET init == Dedup(SubSeq(s, 1, Len(s) - 1))
             last == s[Len(s)]
         IN IF last \in Range(init) THEN init ELSE Append(init, last)

RECURSIVE SumSeq(_)
SumSeq(s) == IF s = <<>> THEN 0 ELSE Head(s) + SumSeq(Tail(s))

Take(s, n) == SubSeq(s, 1, IF Len(s) < n THEN Len(s) ELSE n)

\* ------------------------------------------------------------------------
\* GenotypeStatus and the class constants
\* ------------------------------------------------------------------------
DERIVED == "derived"
ANCESTRAL == "ancestral"
HETEROZYGOUS == "het"
MISSING == "missing"
MISMATCH == "mismatch"

GenotypeStatus == {DERIVED, ANCESTRAL, HETEROZYGOUS, MISSING, MISMATCH}

MAIN_BRANCHES ==
    <<"A", "B", "C", "D", "E", "G", "H", "I", "J", "L", "N", "O", "Q", "R", "T">>

INTERMEDIATE_NODES ==
    {"K", "NO", "NO1", "P", "P1", "LT", "F", "CF", "DE", "CT",
     "BT", "GHIJK", "HIJK", "IJK", "IJ", "A1b", "A1b1",
     "A0-T", "A00-T", "A000-T"}

MAIN_BRANCH_DEFINING_SNPS ==
    [b \in Range(MAIN_BRANCHES) |->
        CASE b = "A" -> "L1085" [] b = "B" -> "M60"  [] b = "C" -> "M130"
          [] b = "D" -> "M174"  [] b = "E" -> "M96"  [] b = "G" -> "M201"
          [] b = "H" -> "L901"  [] b = "I" -> "M170" [] b = "J" -> "M304"
          [] b = "L" -> "M20"   [] b = "N" -> "M231" [] b = "O" -> "M175"
          [] b = "Q" -> "M242"  [] b = "R" -> "M207" [] b = "T" -> "M184"]

F_DEFINING_SNP == "M89"

HetModes == {"strict", "moderate", "lenient"}

\* ------------------------------------------------------------------------
\* OFFICIAL_TREE: one tuple per line of the tree text,
\* <<number of leading tabs, node name, the SNP field split at "/">>
\* ------------------------------------------------------------------------
OFFICIAL_TREE == <<
    <<0, "Y", <<"Root">>>>,
    <<1, "A0000", <<"A8864">>>>,
    <<1, "A000-T", <<"A8835">>>>,
    <<2, "A000", <<"A10805">>>>,
    <<2, "A00-T", <<"PR2921">>>>,
    <<3, "A00", <<"AF6", "L1284">>>>,
    <<3, "A0-T", <<"L1085">>>>,
    <<4, "A0", <<"CTS2809.1", "L991.1">>>>,
    <<4, "A1", <<"P305">>>>,
    <<5, "A1a", <<"V161">>>>,
    <<5, "A1b", <<"P108">>>>,
    <<6, "A1b1", <<"L419", "PF712">>>>,
    <<6, "BT", <<"M91">>>>,
    <<7, "B", <<"M60">>>>,
    <<7, "CT", <<"M168", "PF1416">>>>,
    <<8, "DE", <<"M145", "P205", "PF1444">>>>,
    <<9, "D", <<"M174", "Page3">>>>,
    <<10, "D1", <<"CTS3946", "Z3707">>>>,
    <<11, "D1a", <<"CTS9290", "F2285">>>>,
    <<12, "D1a1", <<"F6251", "Z27276">>>>,
    <<13, "D1a1a", <<"F2889">>>>,
    <<14, "D1a1a1", <<"F901">>>>,
    <<15, "D1a1a1a", <<"Z27269">>>>,
    <<16, "D1a1a1a1", <<"Z29448">>>>,
    <<17, "D1a1a1a1a", <<"PH344">>>>,
    <<18, "D1a1a1a1a1", <<"Z44028">>>>,
    <<19, "D1a1a1a1a1a", <<"Z44056">>>>,
    <<19, "D1a1a1a1a1b", <<"F738">>>>,
    <<17, "D1a1a1a1b", <<"F5498">>>>,
    <<15, "D1a1a1b", <<"Z41260">>>>,
    <<16, "D1a1a1b1", <<"Z41261">>>>,
    <<17, "D1a1a1b1a", <<"Z41262">>>>,
    <<18, "D1a1a1b1a1", <<"Z27277">>>>,
    <<18, "D1a1a1b1a2", <<"Z41250">>>>,
    <<14, "D1a1a2", <<"F5439">>>>,
    <<13, "D1a1b", <<"Z34171">>>>,
    <<14, "D1a1b1", <<"Z34166">>>>,
    <<15, "D1a1b1a", <<"Y14750">>>>,
    <<16, "D1a1b1a1", <<"SK554">>>>,
    <<17, "D1a1b1a1a", <<"MF77628">>>>,
    <<12, "D1a2", <<"Z27276">>>>,
    <<13, "D1a2a", <<"P37.1">>>>,
    <<14, "D1a2a1", <<"CTS2728">>>>,
    <<15, "D1a2a1a", <<"CTS7187">>>>,
    <<15, "D1a2a1b", <<"Z17320">>>>,
    <<15, "D1a2a1c", <<"Z14850">>>>,
    <<16, "D1a2a1c1", <<"Z14879">>>>,
    <<17, "D1a2a1c1a", <<"CTS321">>>>,
    <<18, "D1a2a1c1a1", <<"CTS11048">>>>,
    <<19, "D1a2a1c1a1a", <<"Z39387">>>>,
    <<19, "D1a2a1c1a1b", <<"Z40671">>>>,
    <<20, "D1a2a1c1a1b1", <<"Z40686">>>>,
    <<14, "D1a2a2", <<"FGC14584">>>>,
    <<15, "D1a2a2a", <<"FGC14590">>>>,
    <<16, "D1a2a2a1", <<"FGC14591">>>>,
    <<16, "D1a2a2a2", <<"Z43926">>>>,
    <<17, "D1a2a2a2a", <<"Z43932">>>>,
    <<17, "D1a2a2a2b", <<"CTS5960">>>>,
    <<10, "D2", <<"L1378">>>>,
    <<9, "E", <<"M96", "PF182">>>>,
    <<10, "E1", <<"P147">>>>,
    <<11, "E1a", <<"M33">>>>,
    <<11, "E1b", <<"P179">>>>,
    <<12, "E1b1", <<"P2">>>>,
    <<13, "E1b1a", <<"M2">>>>,
    <<13, "E1b1b", <<"M35">>>>,
    <<8, "CF", <<"P143", "PF2587">>>>,
    <<9, "C", <<"M130", "Page51", "RPS4Y711">>>>,
    <<10, "C1", <<"F3393">>>>,
    <<11, "C1a", <<"CTS11043">>>>,
    <<11, "C1b", <<"K281">>>>,
    <<12, "C1b1", <<"F1370">>>>,
    <<13, "C1b1a", <<"M356">>>>,
    <<14, "C1b1a1", <<"P92">>>>,
    <<15, "C1b1a1a", <<"M94">>>>,
    <<16, "C1b1a1a1", <<"F948">>>>,
    <<10, "C2", <<"M217">>>>,
    <<11, "C2a", <<"F1144">>>>,
    <<12, "C2a1", <<"F3553">>>>,
    <<13, "C2a1a", <<"M407">>>>,
    <<14, "C2a1a1", <<"P39">>>>,
    <<14, "C2a1a2", <<"BY66307">>>>,
    <<9, "F", <<"M89", "PF2746">>>>,
    <<10, "GHIJK", <<"F1329", "M3658", "PF2622">>>>,
    <<11, "G", <<"M201", "PF2957">>>>,
    <<12, "G1", <<"M285">>>>,
    <<12, "G2", <<"P287">>>>,
    <<13, "G2a", <<"P15">>>>,
    <<11, "HIJK", <<"F929", "M578", "PF3494">>>>,
    <<12, "H", <<"L901", "M2939">>>>,
    <<12, "IJK", <<"L15", "M523", "PF3492">>>>,
    <<13, "IJ", <<"M429", "P125", "PF3535">>>>,
    <<14, "I", <<"M170", "PF3715">>>>,
    <<15, "I1", <<"M253">>>>,
    <<15, "I2", <<"M438">>>>,
    <<14, "J", <<"M304", "Page16", "PF4609">>>>,
    <<15, "J1", <<"M267">>>>,
    <<15, "J2", <<"M172">>>>,
    <<13, "K", <<"M9">>>>,
    <<14, "LT", <<"L298", "P326">>>>,
    <<15, "L", <<"M20", "PF5570">>>>,
    <<15, "T", <<"M184", "Page34">>>>,
    <<14, "NO", <<"F549", "M2335">>>>,
    <<15, "NO1", <<"M214", "Page39">>>>,
    <<16, "N", <<"M231", "Page91">>>>,
    <<17, "N1", <<"CTS3750">>>>,
    <<18, "N1a", <<"M2013">>>>,
    <<19, "N1a1", <<"M2291">>>>,
    <<20, "N1a1a", <<"CTS5858">>>>,
    <<21, "N1a1a1", <<"M178">>>>,
    <<16, "O", <<"M175">>>>,
    <<17, "O1", <<"M119">>>>,
    <<18, "O1a", <<"M307">>>>,
    <<18, "O1b", <<"P31">>>>,
    <<19, "O1b1", <<"M268">>>>,
    <<19, "O1b2", <<"M176">>>>,
    <<17, "O2", <<"M122">>>>,
    <<18, "O2a", <<"P201">>>>,
    <<19, "O2a1", <<"L465">>>>,
    <<19, "O2a2", <<"M324">>>>,
    <<20, "O2a2a", <<"F1336">>>>,
    <<20, "O2a2b", <<"P201.1">>>>,
    <<21, "O2a2b1", <<"M134">>>>,
    <<22, "O2a2b1a", <<"M117">>>>,
    <<23, "O2a2b1a1", <<"F5">>>>,
    <<23, "O2a2b1a2", <<"CTS7634">>>>,
    <<22, "O2a2b1b", <<"F48">>>>,
    <<21, "O2a2b2", <<"F742">>>>,
    <<14, "P", <<"P295", "PF5866">>>>,
    <<15, "P1", <<"M45">>>>,
    <<16, "Q", <<"M242">>>>,
    <<17, "Q1", <<"L232">>>>,
    <<16, "R", <<"M207", "Page37", "UTY2">>>>,
    <<17, "R1", <<"M173">>>>,
    <<18, "R1a", <<"M420">>>>,
    <<18, "R1b", <<"M343">>>>,
    <<17, "R2", <<"M479">>>>
>>

\* ------------------------------------------------------------------------
\* OFFICIAL_TREE of YHapLZ.py, in the same form: of its 4255 lines, the
\* lines 36, 39, 44, 49, 57, 59, 76, 77, 99, 449, 635, 636, 637, 640 and 641
\* of the file.  These are the lines naming BT, F and GHIJK (each listed
\* twice), F1, and every line on the path stack when one of them is read;
\* the lines left out name other nodes and are popped before a kept line
\* is read, so each kept node gets the parent it has in the full text.
\* ------------------------------------------------------------------------
OFFICIAL_TREE_YHapLZ == <<
    <<0, "Y", <<"Root">>>>,
    <<2, "A000-T", <<"A8835">>>>,
    <<3, "A00-T", <<"PR2921">>>>,
    <<4, "A0-T", <<"L1085">>>>,
    <<5, "A1", <<"P305">>>>,
    <<6, "A1b", <<"P108">>>>,
    <<7, "BT", <<"M91">>>>,
    <<6, "BT", <<"M91">>>>,
    <<7, "CT", <<"M168">>>>,
    <<8, "CF", <<"P143">>>>,
    <<9, "F", <<"M89">>>>,
    <<10, "F", <<"M89">>>>,
    <<11, "F1", <<"P91">>>>,
    <<11, "GHIJK", <<"F1329">>>>,
    <<10, "GHIJK", <<"F1329">>>> >>

Scripts == {"proYHapLZ.py", "YHapLZ.py"}

\* the tree text the script passes to _parse_tree
TreeText(s) == IF s = "YHapLZ.py" THEN OFFICIAL_TREE_YHapLZ ELSE OFFICIAL_TREE

\* ------------------------------------------------------------------------
\* _parse_tree
\* ------------------------------------------------------------------------
RECURSIVE PopStack(_, _)
\* while path_stack and path_stack[-1][0] >= indent: path_stack.pop()
PopStack(path_stack, indent) ==
    IF path_stack # <<>> /\ path_stack[Len(path_stack)][1] >= indent
    THEN PopStack(SubSeq(path_stack, 1, Len(path_stack) - 1), indent)
    ELSE path_stack

\* the parent a line gets: the top of the stack after the pops, if any
LineParent(stack) == stack[Len(stack)][2]

ParseLine(acc, line) ==
    LET indent == line[1]
        node_name == line[2]
        snps == line[3]
        stack == PopStack(acc.path_stack, indent)
    IN IF node_name \in {"Y", "Root", ""}
       THEN acc
       ELSE [phylo_tree |-> IF stack # <<>>
                            THEN Put(acc.phylo_tree, node_name, LineParent(stack))
                            ELSE acc.phylo_tree,
             node_snps  |-> Put(acc.node_snps, node_name, snps),
             path_stack |-> Append(stack, <<indent, node_name>>)]

RECURSIVE ParseLines(_, _, _, _)
\* for line in lines: the lines first..last are parsed in order, each in the
\* state its predecessors left (the range is split in two to keep the
\* evaluation shallow; the order of the lines is unchanged)
ParseLines(acc, lines, first, last) ==
    IF first > last THEN acc
    ELSE IF first = last THEN ParseLine(acc, lines[first])
    ELSE LET mid == (first + last) \div 2
             left == ParseLines(acc, lines, first, mid)
         IN IF left.path_stack = <<>>
            THEN ParseLines(left, lines, mid + 1, last)
            ELSE ParseLines(left, lines, mid + 1, last)

parse_tree(tree_text) ==
    ParseLines([phylo_tree |-> EmptyDict, node_snps |-> EmptyDict,
                path_stack |-> <<>>], tree_text, 1, Len(tree_text))

ParsedTree == parse_tree(OFFICIAL_TREE)

\* ------------------------------------------------------------------------
\* ISOGG index tables.  A row is one data line of the index file that passes
\* the field-count and position filters of _load_isogg, with its fields
\* decoded: parts[0], parts[1], parts[2] split at ";", int(parts[4]) and
\* parts[6] split at "->" (both alleles empty when there is no "->").
\* Haplogroup names come from the file, not from the tree: O1a1 is an ISOGG
\* haplogroup that OFFICIAL_TREE does not list.
\* ------------------------------------------------------------------------
Row(snp_name, haplo, aliases, pos, ref, alt) ==
    [snp_name |-> snp_name, haplo |-> haplo, aliases |-> aliases,
     pos |-> pos, ref |-> ref, alt |-> alt]

IsoggFiles == {"O_F.csv", "O_R.csv", "O_chain.csv"}

\* an index with ten markers on one node, for the marker-count tiers and
\* the heterozygous-call count
DenseFile == "O_dense.csv"

IsoggRows(file) ==
    CASE file = "O_F.csv" ->
           << Row("M175", "O",    <<>>,         100, "A", "G"),
              Row("M122", "O2",   <<>>,         200, "C", "T"),
              Row("M89",  "F",    <<"PF2746">>, 300, "C", "T"),
              Row("P203", "O1a1", <<>>,         400, "",  "") >>
      [] file = "O_R.csv" ->
           << Row("M173", "R1",   <<>>,         500, "A", "C"),
              Row("M207", "R",    <<"Page37">>, 600, "A", "G"),
              Row("M122", "O2",   <<>>,         200, "C", "T"),
              Row("M175", "O",    <<>>,         100, "A", "G"),
              Row("M420", "R1a",  <<>>,         700, "C", "T") >>
      [] file = "O_chain.csv" ->
           << Row("M119",   "O1",    <<>>,      710, "A", "C"),
              Row("P201",   "O2a",   <<>>,      720, "T", "C"),
              Row("M268",   "O1b1",  <<>>,      730, "C", "T"),
              Row("M324",   "O2a2",  <<>>,      740, "G", "C"),
              Row("IMS-JST021354", "O2a2", <<>>, 750, "C", "T"),
              Row("P201.1", "O2a2b", <<>>,      760, "G", "A") >>
      [] file = "O_dense.csv" ->
           << Row("M175",   "O",     <<>>,      800, "A", "G"),
              Row("Z801", "O2a", <<>>, 801, "C", "T"),
              Row("Z802", "O2a", <<>>, 802, "C", "T"),
              Row("Z803", "O2a", <<>>, 803, "C", "T"),
              Row("Z804", "O2a", <<>>, 804, "C", "T"),
              Row("Z805", "O2a", <<>>, 805, "C", "T"),
              Row("Z806", "O2a", <<>>, 806, "C", "T"),
              Row("Z807", "O2a", <<>>, 807, "C", "T"),
              Row("Z808", "O2a", <<>>, 808, "C", "T"),
              Row("Z809", "O2a", <<>>, 809, "C", "T"),
              Row("Z810", "O2a", <<>>, 810, "C", "T"),
              Row("M122",   "O2",    <<>>,      811, "C", "T") >>

\* ------------------------------------------------------------------------
\* _load_isogg
\* ------------------------------------------------------------------------
RECURSIVE AddAliases(_, _, _)
\* for alt_name in parts[2].split(';'): only a name not yet in snp_to_info
AddAliases(info, aliases, tuple) ==
    IF aliases = <<>> THEN info
    ELSE LET alt_name == Head(aliases)
         IN AddAliases(IF alt_name # "" /\ alt_name \notin DOMAIN info
                       THEN Put(info, alt_name, tuple) ELSE info,
                       Tail(aliases), tuple)

\* self.snp_to_info[snp_name] = (pos, ref, alt): a plain assignment
StoreSnp(info, row) == Put(info, row.snp_name, <<row.pos, row.ref, row.alt>>)

LoadRow(acc, row) ==
    LET entry == [haplo |-> row.haplo, snp_name |-> row.snp_name,
                  ref |-> row.ref, alt |-> row.alt]
        seen == row.pos \in DOMAIN acc.pos_to_haplo.at
    IN [snp_to_info |->
            AddAliases(StoreSnp(acc.snp_to_info, row), row.aliases,
                       <<row.pos, row.ref, row.alt>>),
        pos_to_haplo |->
            [keys |-> IF seen THEN acc.pos_to_haplo.keys
                      ELSE Append(acc.pos_to_haplo.keys, row.pos),
             at   |-> Put(acc.pos_to_haplo.at, row.pos,
                          IF seen THEN Append(acc.pos_to_haplo.at[row.pos], entry)
                          ELSE <<entry>>)]]

RECURSIVE LoadRows(_, _)
LoadRows(acc, rows) ==
    IF rows = <<>> THEN acc ELSE LoadRows(LoadRow(acc, Head(rows)), Tail(rows))

load_isogg(file) ==
    LoadRows([snp_to_info |-> EmptyDict,
              pos_to_haplo |-> [keys |-> <<>>, at |-> EmptyDict]],
             IsoggRows(file))

\* ------------------------------------------------------------------------
\* Tree queries
\* ------------------------------------------------------------------------
RECURSIVE AncestorsLoop(_, _, _)
AncestorsLoop(current, seen, ancestors) ==
    IF current \in DOMAIN phylo_tree /\ current \notin seen
    THEN AncestorsLoop(phylo_tree[current], seen \cup {current},
                       Append(ancestors, phylo_tree[current]))
    ELSE ancestors

get_ancestors(node) == AncestorsLoop(node, {}, <<>>)

get_depth(node) == Len(get_ancestors(node))

StartsWith(s, prefix) ==
    Len(s) >= Len(prefix) /\ SubSeq(s, 1, Len(prefix)) = prefix

IsDigit(c) == c \in {"0", "1", "2", "3", "4", "5", "6", "7", "8", "9"}

\* the body of the "Direct match" loop for one branch
DirectMatch(haplo, branch) ==
    \/ haplo = branch
    \/ /\ StartsWith(haplo, branch)
       /\ Len(haplo) > 1
       /\ LET next_char == IF Len(haplo) > Len(branch)
                           THEN SubSeq(haplo, Len(branch) + 1, Len(branch) + 1)
                           ELSE ""
          IN IsDigit(next_char) \/ next_char = ""

get_main_branch(haplo) ==
    IF haplo = "" THEN None
    ELSE LET hits == {i \in 1..Len(MAIN_BRANCHES) :
                        DirectMatch(haplo, MAIN_BRANCHES[i])}
         IN IF hits # {} THEN MAIN_BRANCHES[Min(hits)]
            ELSE IF haplo \in INTERMEDIATE_NODES THEN None
            ELSE IF SubSeq(haplo, 1, 1) \in Range(MAIN_BRANCHES)
                 THEN SubSeq(haplo, 1, 1)
                 ELSE None

\* ------------------------------------------------------------------------
\* check_genotype and is_derived
\* ------------------------------------------------------------------------
\* str.upper() on an allele symbol
Upper(a) ==
    CASE a = "a" -> "A" [] a = "c" -> "C" [] a = "g" -> "G" [] a = "t" -> "T"
      [] OTHER -> a

IsHet(gt) == gt \in {"0/1", "0|1", "1/0", "1|0"}

IsHomAlt(gt) == gt \in {"1/1", "1|1", "1"}

IsHomRef(gt) == gt \in {"0/0", "0|0", "0"}

\* the inference from the call alone, reporting any other call as missing
Zygosity_missing(gt) ==
    IF IsHomAlt(gt) THEN DERIVED
    ELSE IF IsHet(gt) THEN HETEROZYGOUS
    ELSE IF IsHomRef(gt) THEN ANCESTRAL
    ELSE MISSING

\* "When no explicit info, infer from VCF"
Zygosity(gt) ==
    IF IsHomAlt(gt) THEN DERIVED
    ELSE IF IsHet(gt) THEN HETEROZYGOUS
    ELSE IF IsHomRef(gt) THEN ANCESTRAL
    ELSE MISMATCH

\* check_genotype without the reversed-orientation case (VCF REF is the
\* expected derived allele)
check_genotype_forward(gt, vcf_ref0, vcf_alt0, exp_ref, exp_alt) ==
    IF gt \in {"./.", ".", ""} THEN MISSING
    ELSE LET vcf_ref == Upper(vcf_ref0)
             vcf_alt == IF vcf_alt0 # "." THEN Upper(vcf_alt0) ELSE ""
         IN IF exp_ref # "" /\ exp_alt # ""
               /\ vcf_ref = Upper(exp_ref) /\ vcf_alt = Upper(exp_alt)
            THEN IF IsHomAlt(gt) THEN DERIVED
                 ELSE IF IsHet(gt) THEN HETEROZYGOUS
                 ELSE IF IsHomRef(gt) THEN ANCESTRAL
                 ELSE Zygosity(gt)
            ELSE Zygosity(gt)

\* check_genotype comparing the VCF alleles as written, without upper()
check_genotype_as_written(gt, vcf_ref0, vcf_alt0, exp_ref, exp_alt) ==
    IF gt \in {"./.", ".", ""} THEN MISSING
    ELSE IF exp_ref # "" /\ exp_alt # ""
            /\ vcf_ref0 = Upper(exp_ref) /\ vcf_alt0 = Upper(exp_alt)
    THEN Zygosity(gt)
    ELSE IF exp_ref # "" /\ exp_alt # ""
            /\ vcf_ref0 = Upper(exp_alt) /\ vcf_alt0 = Upper(exp_ref)
    THEN (IF IsHomRef(gt) THEN DERIVED
          ELSE IF IsHet(gt) THEN HETEROZYGOUS
          ELSE IF IsHomAlt(gt) THEN ANCESTRAL
          ELSE Zygosity(gt))
    ELSE Zygosity(gt)

check_genotype(gt, vcf_ref0, vcf_alt0, exp_ref, exp_alt) ==
    IF gt \in {"./.", ".", ""} THEN MISSING
    ELSE LET vcf_ref == Upper(vcf_ref0)
             vcf_alt == IF vcf_alt0 # "." THEN Upper(vcf_alt0) ELSE ""
         IN IF exp_ref # "" /\ exp_alt # ""
            THEN IF vcf_ref = Upper(exp_ref) /\ vcf_alt = Upper(exp_alt)
                 THEN IF IsHomAlt(gt) THEN DERIVED
                      ELSE IF IsHet(gt) THEN HETEROZYGOUS
                      ELSE IF IsHomRef(gt) THEN ANCESTRAL
                      ELSE Zygosity(gt)
                 ELSE IF vcf_ref = Upper(exp_alt) /\ vcf_alt = Upper(exp_ref)
                 THEN IF IsHomRef(gt) THEN DERIVED
                      ELSE IF IsHet(gt) THEN HETEROZYGOUS
                      ELSE IF IsHomAlt(gt) THEN ANCESTRAL
                      ELSE Zygosity(gt)
                 ELSE Zygosity(gt)
            ELSE Zygosity(gt)

\* is_derived treating a heterozygous call as derived under every het_mode
is_derived_lenient(status) ==
    IF status = DERIVED THEN "True"
    ELSE IF status = ANCESTRAL THEN "False"
    ELSE IF status = HETEROZYGOUS THEN "True"
    ELSE None

\* True / False / None of the source are "True" / "False" / "None"
is_derived(status) ==
    IF status = DERIVED THEN "True"
    ELSE IF status = ANCESTRAL THEN "False"
    ELSE IF status = HETEROZYGOUS
         THEN IF het_mode = "strict" THEN None ELSE "True"
    ELSE None

Truthy(v) == v = "True"

\* ------------------------------------------------------------------------
\* classify_sample, Step 1: collect the status of every indexed position
\* ------------------------------------------------------------------------
MapSeq(s, F(_)) == [i \in 1..Len(s) |-> F(s[i])]

\* for pos, entries in self.pos_to_haplo.items(): if pos not in sample_geno: continue
Visited(sg) == SelectSeq(pos_to_haplo.keys, LAMBDA pos : pos \in DOMAIN sg)

\* het_count is raised once per visited position whose call is heterozygous
HetCount(sg) == Len(SelectSeq(Visited(sg), LAMBDA pos : IsHet(sg[pos][1])))

\* one record per (position, entry) pair in iteration order
Observations(sg) ==
    Flatten(MapSeq(Visited(sg), LAMBDA pos :
        MapSeq(pos_to_haplo.at[pos], LAMBDA e :
            [haplo |-> e.haplo, snp_name |-> e.snp_name, pos |-> pos,
             status |-> check_genotype(sg[pos][1], sg[pos][2], sg[pos][3],
                                       e.ref, e.alt)])))

SnpsWith(obs, haplo, status) ==
    MapSeq(SelectSeq(obs, LAMBDA o : o.haplo = haplo /\ o.status = status),
           LAMBDA o : o.snp_name)

AllNodeStatus(obs) ==
    [h \in {obs[i].haplo : i \in 1..Len(obs)} |->
        [derived   |-> SnpsWith(obs, h, DERIVED),
         ancestral |-> SnpsWith(obs, h, ANCESTRAL),
         het       |-> SnpsWith(obs, h, HETEROZYGOUS),
         missing   |-> <<>>]]

\* if self.is_derived(status): derived_haplos[haplo].append((snp_name, pos))
CountsAsDerived(o) == Truthy(is_derived(o.status))

DerivedHaplos(obs) ==
    LET dobs == SelectSeq(obs, CountsAsDerived)
        keys == Dedup(MapSeq(dobs, LAMBDA o : o.haplo))
    IN [keys |-> keys,
        at   |-> [h \in Range(keys) |->
                    MapSeq(SelectSeq(dobs, LAMBDA o : o.haplo = h),
                           LAMBDA o : <<o.snp_name, o.pos>>)]]

\* ------------------------------------------------------------------------
\* Step 2: group the derived haplogroups by main branch
\* ------------------------------------------------------------------------
Candidate(dh, haplo) ==
    [haplo  |-> haplo,
     n_snps |-> Len(dh.at[haplo]),
     snps   |-> MapSeq(dh.at[haplo], LAMBDA s : s[1]),
     depth  |-> get_depth(haplo)]

BranchCandidates(dh) ==
    LET grouped == SelectSeq(dh.keys, LAMBDA h : get_main_branch(h) # None)
        keys == Dedup(MapSeq(grouped, get_main_branch))
    IN [keys |-> keys,
        at   |-> [b \in Range(keys) |->
                    MapSeq(SelectSeq(grouped, LAMBDA h : get_main_branch(h) = b),
                           LAMBDA h : Candidate(dh, h))]]

\* ------------------------------------------------------------------------
\* Step 3: determine the main branch
\* ------------------------------------------------------------------------
BranchDirectStatus(sg) ==
    [branch \in Range(MAIN_BRANCHES) |->
        LET snp == MAIN_BRANCH_DEFINING_SNPS[branch]
        IN IF snp # "" /\ snp \in DOMAIN snp_to_info
           THEN LET pos == snp_to_info[snp][1]
                IN IF pos \in DOMAIN sg
                   THEN check_genotype(sg[pos][1], sg[pos][2], sg[pos][3],
                                       snp_to_info[snp][2], snp_to_info[snp][3])
                   ELSE MISSING
           ELSE MISSING]

\* the defining-marker search keeping the last match instead of the first
\* (the loop without its break)
DefiningBranch_last(bds, bc) ==
    LET hits == {i \in 1..Len(MAIN_BRANCHES) :
                    /\ Truthy(is_derived(bds[MAIN_BRANCHES[i]]))
                    /\ MAIN_BRANCHES[i] \in Range(bc.keys)}
    IN IF hits = {} THEN None ELSE MAIN_BRANCHES[Max(hits)]

\* "First find those with derived defining SNPs"
DefiningBranch(bds, bc) ==
    LET hits == {i \in 1..Len(MAIN_BRANCHES) :
                    /\ Truthy(is_derived(bds[MAIN_BRANCHES[i]]))
                    /\ MAIN_BRANCHES[i] \in Range(bc.keys)}
    IN IF hits = {} THEN None ELSE MAIN_BRANCHES[Min(hits)]

\* no branch is excluded
Excluded_none(bds) == {branch \in DOMAIN bds : FALSE}

\* the exclusion applied to every branch whose defining marker is not derived
Excluded_not_derived(bds) == {branch \in DOMAIN bds : bds[branch] # DERIVED}

\* "Exclude branches with clear ancestral defining SNPs"
Excluded(bds) == {branch \in DOMAIN bds : bds[branch] = ANCESTRAL}

RECURSIVE BestBranchLoop(_, _, _, _)
\* for branch, candidates in branch_candidates.items(): keep the first
\* branch whose total is strictly above every total seen before it
BestBranchLoop(keys, bc, excluded, best) ==
    IF keys = <<>> THEN best
    ELSE LET branch == Head(keys)
             total_snps == SumSeq(MapSeq(bc.at[branch], LAMBDA c : c.n_snps))
         IN BestBranchLoop(Tail(keys), bc, excluded,
                IF branch \notin excluded /\ total_snps > best.best_count
                THEN [best_branch |-> branch, best_count |-> total_snps]
                ELSE best)

DownstreamBranch(bds, bc) ==
    BestBranchLoop(bc.keys, bc, Excluded(bds),
                   [best_branch |-> None, best_count |-> 0])

\* "Special handling: detect basal F"
BasalF(sg) ==
    /\ F_DEFINING_SNP \in DOMAIN snp_to_info
    /\ LET f == snp_to_info[F_DEFINING_SNP]
       IN /\ f[1] \in DOMAIN sg
          /\ Truthy(is_derived(check_genotype(sg[f[1]][1], sg[f[1]][2],
                                              sg[f[1]][3], f[2], f[3])))

\* main_branch, main_branch_note and the candidates of the chosen branch
SelectBranch(sg, bds, bc) ==
    LET direct == DefiningBranch(bds, bc)
        down == DownstreamBranch(bds, bc)
    IN IF direct # None
       THEN [main_branch |-> direct,
             main_branch_note |-> MAIN_BRANCH_DEFINING_SNPS[direct] \o " derived",
             candidates |-> bc.at[direct]]
       ELSE IF down.best_branch # None
       THEN [main_branch |-> down.best_branch,
             main_branch_note |-> "inferred from " \o ToString(down.best_count)
                                  \o " downstream SNPs",
             candidates |-> bc.at[down.best_branch]]
       ELSE IF BasalF(sg)
       THEN [main_branch |-> "F",
             main_branch_note |-> "basal F (M89 derived, no downstream)",
             candidates |-> IF "F" \notin Range(bc.keys)
                            THEN << [haplo |-> "F", n_snps |-> 1,
                                     snps |-> <<"M89">>, depth |-> 0] >>
                            ELSE bc.at["F"]]
       ELSE [main_branch |-> None, main_branch_note |-> "", candidates |-> <<>>]

\* ------------------------------------------------------------------------
\* Step 4: subdivide within the main branch, validating the ancestor chain
\* ------------------------------------------------------------------------
\* key=lambda x: (x['depth'], x['n_snps']), reverse=True
KeyGreater(a, b) ==
    \/ a.depth > b.depth
    \/ a.depth = b.depth /\ a.n_snps > b.n_snps

RECURSIVE InsertCand(_, _)
\* x goes behind every element whose key is not below its own (stable)
InsertCand(s, x) ==
    IF s = <<>> THEN <<x>>
    ELSE IF KeyGreater(x, Head(s)) THEN <<x>> \o s
    ELSE <<Head(s)>> \o InsertCand(Tail(s), x)

RECURSIVE SortCandidates(_)
SortCandidates(s) ==
    IF s = <<>> THEN <<>>
    ELSE InsertCand(SortCandidates(SubSeq(s, 1, Len(s) - 1)), s[Len(s)])

RECURSIVE RelevantLoop(_, _)
\* "Only check ancestors within main branch": stop at the branch node
RelevantLoop(ancestors, main_branch) ==
    IF ancestors = <<>> THEN <<>>
    ELSE LET anc == Head(ancestors)
         IN IF anc = main_branch THEN <<>>
            ELSE IF get_main_branch(anc) = main_branch \/ anc = main_branch
                 THEN <<anc>> \o RelevantLoop(Tail(ancestors), main_branch)
                 ELSE RelevantLoop(Tail(ancestors), main_branch)

RelevantAncestors(haplo, main_branch) ==
    RelevantLoop(get_ancestors(haplo), main_branch)

\* the heterozygous rescue applied under lenient alone
HetSaves_lenient_only(anc_info) ==
    anc_info.het # <<>> /\ het_mode = "lenient"

\* the heterozygous rescue applied under every het_mode
HetSaves_any_mode(anc_info) == anc_info.het # <<>>

\* "Can heterozygous save it?"
HetSaves(anc_info) ==
    anc_info.het # <<>> /\ het_mode \in {"moderate", "lenient"}

\* an ancestor that breaks the chain of a candidate
ChainConflict(anc, ans) ==
    /\ anc \in DOMAIN ans
    /\ ans[anc].ancestral # <<>>
    /\ ans[anc].derived = <<>>
    /\ ~HetSaves(ans[anc])

ChainConflicts(haplo, main_branch, ans) ==
    MapSeq(SelectSeq(RelevantAncestors(haplo, main_branch),
                     LAMBDA anc : ChainConflict(anc, ans)),
           LAMBDA anc : anc \o "(ancestral)")

Chosen(cand, conflicts) ==
    [best_haplo |-> cand.haplo, best_n_snps |-> cand.n_snps,
     best_evidence |-> Take(cand.snps, 5), ancestor_conflicts |-> conflicts]

RECURSIVE ChainLoop(_, _, _, _)
\* for cand in candidates: the first candidate with a valid chain ends the loop
ChainLoop(cands, main_branch, ans, acc) ==
    IF cands = <<>> THEN acc
    ELSE LET cand == Head(cands)
             conflicts == ChainConflicts(cand.haplo, main_branch, ans)
         IN IF conflicts = <<>>
            THEN Chosen(cand, acc.ancestor_conflicts)
            ELSE ChainLoop(Tail(cands), main_branch, ans,
                           [acc EXCEPT !.ancestor_conflicts = @ \o conflicts])

\* float('inf')
Inf == -1

\* conflict_count of the re-evaluation: every ancestor, no het leniency
ConflictCount(haplo, ans) ==
    Len(SelectSeq(get_ancestors(haplo), LAMBDA anc :
            /\ anc \in DOMAIN ans
            /\ ans[anc].ancestral # <<>>
            /\ ans[anc].derived = <<>>))

RECURSIVE FewestLoop(_, _, _, _)
FewestLoop(cands, ans, min_conflicts, acc) ==
    IF cands = <<>> THEN acc
    ELSE LET cand == Head(cands)
             conflict_count == ConflictCount(cand.haplo, ans)
         IN IF min_conflicts = Inf \/ conflict_count < min_conflicts
            THEN FewestLoop(Tail(cands), ans, conflict_count,
                            Chosen(cand, acc.ancestor_conflicts))
            ELSE FewestLoop(Tail(cands), ans, min_conflicts, acc)

\* if best_haplo == main_branch and candidates: re-evaluate
NeedsFallback(best, main_branch, candidates) ==
    best.best_haplo = main_branch /\ candidates # <<>>

Subdivide(main_branch, candidates, ans) ==
    LET best == ChainLoop(candidates, main_branch, ans,
                          [best_haplo |-> main_branch, best_n_snps |-> 0,
                           best_evidence |-> <<>>, ancestor_conflicts |-> <<>>])
    IN IF NeedsFallback(best, main_branch, candidates)
       THEN FewestLoop(candidates, ans, Inf, best)
       ELSE best

\* ------------------------------------------------------------------------
\* Step 5: confidence, in hundredths
\* ------------------------------------------------------------------------
BaseConfidence(direct_status, best_n_snps) ==
    IF Truthy(is_derived(direct_status))
    THEN IF best_n_snps >= 5 THEN 95
         ELSE IF best_n_snps >= 3 THEN 90
         ELSE 85
    ELSE IF best_n_snps >= 10 THEN 85
         ELSE IF best_n_snps >= 5 THEN 75
         ELSE IF best_n_snps >= 3 THEN 65
         ELSE 50

ConflictPenalty(ancestor_conflicts) ==
    IF ancestor_conflicts # <<>> THEN 15 ELSE 0

\* the heterozygous penalty starting at ten calls
HetPenalty_from_ten(het_count) == IF het_count >= 10 THEN 5 ELSE 0

HetPenalty(het_count) == IF het_count > 10 THEN 5 ELSE 0

Clamp(c) == Max({0, Min({100, c})})

Confidence(direct_status, best_n_snps, ancestor_conflicts, het_count) ==
    Clamp(BaseConfidence(direct_status, best_n_snps)
          - ConflictPenalty(ancestor_conflicts) - HetPenalty(het_count))

\* ------------------------------------------------------------------------
\* _make_result and classify_sample
\* ------------------------------------------------------------------------
make_result(sample, main_branch, haplo, n_snps, confidence, het_count, evidence, note, diagnostics) ==
    [sample |-> sample, main_branch |-> main_branch, haplogroup |-> haplo,
     n_snps |-> n_snps, confidence |-> confidence, het_count |-> het_count,
     evidence |-> evidence, note |-> note, diagnostics |-> diagnostics]

\* the Unknown result built without its note
Unknown_no_note(sample, het_count, note) ==
    make_result(sample, "Unknown", "Unknown", 0, 0, het_count, <<>>, "",
                EmptyDict)

Unknown(sample, het_count, note) ==
    make_result(sample, "Unknown", "Unknown", 0, 0, het_count, <<>>, note,
                EmptyDict)

Classified(sample, sg, dh, bds, sel, ans) ==
    LET candidates == SortCandidates(sel.candidates)
        best == Subdivide(sel.main_branch, candidates, ans)
        direct_status == IF sel.main_branch \in DOMAIN bds
                         THEN bds[sel.main_branch] ELSE MISSING
        diagnostics ==
            [main_branch_status |-> direct_status,
             main_branch_note |-> sel.main_branch_note,
             ancestor_conflicts |-> Take(best.ancestor_conflicts, 3),
             total_derived_haplos |-> Len(dh.keys),
             candidates_in_branch |-> Len(candidates)]
    IN make_result(sample, sel.main_branch, best.best_haplo, best.best_n_snps,
                   Confidence(direct_status, best.best_n_snps,
                              best.ancestor_conflicts, HetCount(sg)),
                   HetCount(sg), best.best_evidence, "", diagnostics)

\* classify_sample without the return for an undetermined main branch
classify_sample_undetermined(sample, sg) ==
    LET obs == Observations(sg)
        dh == DerivedHaplos(obs)
        bc == BranchCandidates(dh)
        bds == BranchDirectStatus(sg)
        sel == SelectBranch(sg, bds, bc)
    IN IF dh.keys = <<>>
       THEN Unknown(sample, HetCount(sg), "No derived SNPs")
       ELSE IF bc.keys = <<>>
       THEN Unknown(sample, HetCount(sg), "Cannot determine main branch")
       ELSE Classified(sample, sg, dh, bds, sel, AllNodeStatus(obs))

classify_sample(sample, sg) ==
    LET obs == Observations(sg)
        dh == DerivedHaplos(obs)
        bc == BranchCandidates(dh)
        bds == BranchDirectStatus(sg)
        sel == SelectBranch(sg, bds, bc)
    IN IF dh.keys = <<>>
       THEN Unknown(sample, HetCount(sg), "No derived SNPs")
       ELSE IF bc.keys = <<>>
       THEN Unknown(sample, HetCount(sg), "Cannot determine main branch")
       ELSE IF sel.main_branch = None
       THEN Unknown(sample, HetCount(sg),
              "Cannot determine main branch (Insufficient or conflicting evidence)")
       ELSE Classified(sample, sg, dh, bds, sel, AllNodeStatus(obs))

\* ------------------------------------------------------------------------
\* The VCF: the sites a sample may carry, with the REF/ALT of the VCF line.
\* Sites 200, 600, 720 and 811 are written in the opposite orientation to
\* the index (REF is the derived allele), site 300 in lower case, and site
\* 900 is a Y site that no index table lists.  Sites 800..811 are those of
\* the dense index.
\* ------------------------------------------------------------------------
VcfSite(pos) ==
    CASE pos = 100 -> <<"A", "G">> [] pos = 200 -> <<"T", "C">>
      [] pos = 300 -> <<"c", "t">> [] pos = 400 -> <<"G", "A">>
      [] pos = 500 -> <<"A", "C">> [] pos = 600 -> <<"G", "A">>
      [] pos = 700 -> <<"C", "T">> [] pos = 710 -> <<"A", "C">>
      [] pos = 720 -> <<"C", "T">> [] pos = 730 -> <<"C", "T">>
      [] pos = 740 -> <<"G", "C">> [] pos = 750 -> <<"C", "T">>
      [] pos = 760 -> <<"G", "A">> [] pos = 900 -> <<"A", "C">>
      [] pos = 800 -> <<"A", "G">> [] pos = 811 -> <<"T", "C">>
      [] pos \in 801..810 -> <<"C", "T">>

VcfPositions(file) ==
    {IsoggRows(file)[i].pos : i \in 1..Len(IsoggRows(file))}
        \cup (IF file = "O_F.csv" THEN {900} ELSE {})

\* the GT values a line may carry; the no-call is enumerated at the sites of
\* the two smaller tables, and a call naming a second alternate allele at
\* sites 100 and 300
\* the GT values at the sites of the dense index: M175 at 800 derived or
\* heterozygous, the ten markers of O2a heterozygous (the first two also
\* derived), M122 at 811 ancestral (its line has REF = derived allele)
DenseCalls(pos) ==
    IF pos = 811 THEN {"1/1"}
    ELSE IF pos \in 800..802 THEN {"0/1", "1/1"}
    ELSE {"0/1"}

GenotypeCalls(pos) ==
    IF pos \in 800..811
    THEN DenseCalls(pos)
    ELSE {"0/0", "0/1", "1/1"}
            \cup (IF pos < 710 \/ pos = 900 THEN {"./."} ELSE {})
            \cup (IF pos \in {100, 300} THEN {"1/2"} ELSE {})

MaxCalls == 12

MaxClassify == 2

SampleName == "S1"

\* ------------------------------------------------------------------------
\* The state machine
\* ------------------------------------------------------------------------
\* HaplogroupClassifier.__init__, then an empty genotype map and results = []
Init ==
    /\ script = "proYHapLZ.py"
    /\ het_mode \in HetModes
    /\ isogg_file \in IsoggFiles
    /\ phylo_tree = ParsedTree.phylo_tree
    /\ node_snps = ParsedTree.node_snps
    /\ args = None
    /\ ret = None
    /\ snp_to_info = load_isogg(isogg_file).snp_to_info
    /\ pos_to_haplo = load_isogg(isogg_file).pos_to_haplo
    /\ sample_geno = EmptyDict
    /\ results = <<>>

\* load_vcf, one data line: sample_geno[sample][pos] = (gt, ref, alt);
\* the lines of a VCF come in ascending position
ReadVcfLine(pos, gt) ==
    /\ results = <<>>
    /\ Cardinality(DOMAIN sample_geno) < MaxCalls
    /\ \A p \in DOMAIN sample_geno : p < pos
    /\ sample_geno' = Put(sample_geno, pos, <<gt, VcfSite(pos)[1], VcfSite(pos)[2]>>)
    /\ UNCHANGED <<refdata, results, probe>>

\* a classify_sample that uses up the calls it reads
Classify_consuming ==
    /\ results = <<>>
    /\ results' = <<classify_sample(SampleName, sample_geno)>>
    /\ sample_geno' = EmptyDict
    /\ UNCHANGED <<refdata, probe>>

\* main: result = classifier.classify_sample(sample, sample_geno[sample]);
\* results.append(result): the loop classifies each sample once
Classify ==
    /\ results = <<>>
    /\ results' = <<classify_sample(SampleName, sample_geno)>>
    /\ UNCHANGED <<refdata, sample_geno, probe>>

\* a repeated call that looks up a missing key of the defaultdict
\* pos_to_haplo, which inserts it
ClassifyAgain_inserting ==
    /\ results # <<>>
    /\ Len(results) < MaxClassify
    /\ results' = Append(results, classify_sample(SampleName, sample_geno))
    /\ pos_to_haplo' = [pos_to_haplo EXCEPT !.keys = Append(@, 900)]
    /\ UNCHANGED <<script, het_mode, isogg_file, phylo_tree, node_snps,
                   snp_to_info, sample_geno, probe>>

\* a further call of classify_sample on the same classifier, with the same
\* sample identifier and genotype map; the method assigns no field of self
\* and no item of sample_geno
ClassifyAgain ==
    /\ results # <<>>
    /\ Len(results) < MaxClassify
    /\ results' = Append(results, classify_sample(SampleName, sample_geno))
    /\ UNCHANGED <<refdata, sample_geno, probe>>

Next ==
    \/ \E pos \in VcfPositions(isogg_file) : \E gt \in GenotypeCalls(pos) :
          ReadVcfLine(pos, gt)
    \/ Classify

Spec == Init /\ [][Next]_vars


NextRepeat ==
    \/ Next
    \/ ClassifyAgain

\* one sample read and classified, then classified again
SpecRepeat == Init /\ [][NextRepeat]_vars

\* the constructor run on the dense index
InitDense ==
    /\ script = "proYHapLZ.py"
    /\ het_mode \in HetModes
    /\ isogg_file = DenseFile
    /\ phylo_tree = ParsedTree.phylo_tree
    /\ node_snps = ParsedTree.node_snps
    /\ snp_to_info = load_isogg(isogg_file).snp_to_info
    /\ pos_to_haplo = load_isogg(isogg_file).pos_to_haplo
    /\ sample_geno = EmptyDict
    /\ results = <<>>
    /\ args = None
    /\ ret = None

SpecDense == InitDense /\ [][Next]_vars

\* ------------------------------------------------------------------------
\* check_genotype called on its own
\* ------------------------------------------------------------------------
\* the GT field of a VCF line: unphased, phased and haploid calls, the
\* no-call spellings, and a call naming a second alternate allele
GtValues ==
    {"0/0", "0/1", "1/0", "1/1", "0|0", "0|1", "1|0", "1|1", "0", "1",
     "./.", ".|.", ".", "", "1/2"}

\* REF and ALT of a VCF line
VcfRefs == {"A", "G", "g"}

VcfAlts == {"G", "A", "a", ".", "G,T"}

\* the alleles of an index row: both empty without "->" in the mutation
ExpAlleles == {"", "A", "G", "T"}

\* a classifier built as by Init, with the default het_mode
InitProbe ==
    /\ Init
    /\ het_mode = "moderate"
    /\ isogg_file = "O_F.csv"

CheckGenotype(gt, vcf_ref, vcf_alt, exp_ref, exp_alt) ==
    /\ args = None
    /\ args' = <<gt, vcf_ref, vcf_alt, exp_ref, exp_alt>>
    /\ ret' = check_genotype(gt, vcf_ref, vcf_alt, exp_ref, exp_alt)
    /\ UNCHANGED <<refdata, sample_geno, results>>

NextGenotype ==
    \E gt \in GtValues, vcf_ref \in VcfRefs, vcf_alt \in VcfAlts,
       exp_ref \in ExpAlleles, exp_alt \in ExpAlleles :
        CheckGenotype(gt, vcf_ref, vcf_alt, exp_ref, exp_alt)

SpecGenotype == InitProbe /\ [][NextGenotype]_vars

\* ------------------------------------------------------------------------
\* Building the classifier of a script, then querying its tree
\* ------------------------------------------------------------------------
\* before HaplogroupClassifier(...) has run there is no classifier: its
\* fields hold nothing
InitTree ==
    /\ script \in Scripts
    /\ het_mode = "moderate"
    /\ isogg_file = "O_F.csv"
    /\ phylo_tree = EmptyDict
    /\ node_snps = EmptyDict
    /\ snp_to_info = EmptyDict
    /\ pos_to_haplo = EmptyDict
    /\ sample_geno = EmptyDict
    /\ results = <<>>
    /\ args = None
    /\ ret = None

\* HaplogroupClassifier.__init__: _parse_tree(OFFICIAL_TREE), _load_isogg
Construct ==
    /\ node_snps = EmptyDict
    /\ phylo_tree' = parse_tree(TreeText(script)).phylo_tree
    /\ node_snps' = parse_tree(TreeText(script)).node_snps
    /\ snp_to_info' = load_isogg(isogg_file).snp_to_info
    /\ pos_to_haplo' = load_isogg(isogg_file).pos_to_haplo
    /\ UNCHANGED <<script, het_mode, isogg_file, sample_geno, results, probe>>

GetAncestors(node) ==
    /\ node_snps # EmptyDict
    /\ args = None
    /\ args' = <<"get_ancestors", node>>
    /\ ret' = get_ancestors(node)
    /\ UNCHANGED <<refdata, sample_geno, results>>

GetDepth(node) ==
    /\ node_snps # EmptyDict
    /\ args = None
    /\ args' = <<"get_depth", node>>
    /\ ret' = get_depth(node)
    /\ UNCHANGED <<refdata, sample_geno, results>>

GetMainBranch(haplo) ==
    /\ node_snps # EmptyDict
    /\ args = None
    /\ args' = <<"get_main_branch", haplo>>
    /\ ret' = get_main_branch(haplo)
    /\ UNCHANGED <<refdata, sample_geno, results>>

\* the nodes of the built tree: every name read from the tree text
NextTree ==
    \/ Construct
    \/ \E node \in DOMAIN node_snps : GetAncestors(node)
    \/ \E node \in DOMAIN node_snps : GetDepth(node)
    \/ \E haplo \in DOMAIN node_snps \cup INTERMEDIATE_NODES : GetMainBranch(haplo)

SpecTree == InitTree /\ [][NextTree]_vars

\* ------------------------------------------------------------------------
\* _load_isogg reading an index file line by line
\* ------------------------------------------------------------------------
RowsFile == "index.csv"

\* the data lines an index file may hold: two marker names, each possibly
\* with the other or itself as alias, at two positions
IndexLines ==
    {Row(n, "O", a, p, IF p = 100 THEN "A" ELSE "C", IF p = 100 THEN "G" ELSE "T") :
        n \in {"M1", "M2"}, a \in {<<>>, <<"M1">>, <<"M2">>}, p \in {100, 200}}

MaxRows == 3

\* the constructor up to the call of _load_isogg: the tree is parsed, both
\* dicts are empty and no line has been read
InitIndex ==
    /\ script = "proYHapLZ.py"
    /\ het_mode = "moderate"
    /\ isogg_file = RowsFile
    /\ phylo_tree = ParsedTree.phylo_tree
    /\ node_snps = ParsedTree.node_snps
    /\ snp_to_info = EmptyDict
    /\ pos_to_haplo = [keys |-> <<>>, at |-> EmptyDict]
    /\ sample_geno = EmptyDict
    /\ results = <<>>
    /\ args = <<>>
    /\ ret = None

\* one pass of "for line in f"; args holds the lines read so far
ReadIsoggLine(row) ==
    /\ Len(args) < MaxRows
    /\ args' = Append(args, row)
    /\ snp_to_info' =
           LoadRow([snp_to_info |-> snp_to_info, pos_to_haplo |-> pos_to_haplo],
                   row).snp_to_info
    /\ pos_to_haplo' =
           LoadRow([snp_to_info |-> snp_to_info, pos_to_haplo |-> pos_to_haplo],
                   row).pos_to_haplo
    /\ UNCHANGED <<script, het_mode, isogg_file, phylo_tree, node_snps,
                   sample_geno, results, ret>>

NextIndex == \E row \in IndexLines : ReadIsoggLine(row)

SpecIndex == InitIndex /\ [][NextIndex]_vars

\* ------------------------------------------------------------------------
\* main on a VCF with several sample columns
\* ------------------------------------------------------------------------
MaxSamples == 2

\* samples = parts[9:] of the #CHROM line
SampleLists == {SubSeq(<<"S1", "S2", "S3">>, 1, n) : n \in 1..MaxSamples}

BatchSites == {100, 200}

BatchCalls == {"0/0", "0/1", "1/1"}

\* sample_geno = defaultdict(dict): a sample without a line has no key
MapOf(sg, sample) == IF sample \in DOMAIN sg THEN sg[sample] ELSE EmptyDict

\* the classifier is built, the #CHROM line is read (args holds samples),
\* no data line is read and results = []
InitBatch ==
    /\ script = "proYHapLZ.py"
    /\ het_mode \in HetModes
    /\ isogg_file = "O_F.csv"
    /\ phylo_tree = ParsedTree.phylo_tree
    /\ node_snps = ParsedTree.node_snps
    /\ snp_to_info = load_isogg(isogg_file).snp_to_info
    /\ pos_to_haplo = load_isogg(isogg_file).pos_to_haplo
    /\ sample_geno = EmptyDict
    /\ results = <<>>
    /\ args \in SampleLists
    /\ ret = None

\* load_vcf, one data line: for i, sample in enumerate(samples):
\* sample_geno[sample][pos] = (gt, ref, alt)
ReadBatchLine(pos, gts) ==
    /\ results = <<>>
    /\ \A s \in DOMAIN sample_geno : \A p \in DOMAIN sample_geno[s] : p < pos
    /\ sample_geno' =
           [s \in Range(args) |->
               Put(MapOf(sample_geno, s), pos,
                   <<gts[CHOOSE i \in 1..Len(args) : args[i] = s],
                     VcfSite(pos)[1], VcfSite(pos)[2]>>)]
    /\ UNCHANGED <<refdata, results, probe>>

\* the loop over the samples classifying every sample with the genotype
\* map of the first
ClassifySample_first_map ==
    /\ Len(results) < Len(args)
    /\ results' = Append(results,
           classify_sample(args[Len(results) + 1], MapOf(sample_geno, args[1])))
    /\ UNCHANGED <<refdata, sample_geno, probe>>

\* one pass of "for i, sample in enumerate(samples)": sample_geno[sample]
\* inserts an empty dict for a sample without a key
ClassifySample ==
    /\ Len(results) < Len(args)
    /\ results' = Append(results,
           classify_sample(args[Len(results) + 1],
                           MapOf(sample_geno, args[Len(results) + 1])))
    /\ sample_geno' =
           IF args[Len(results) + 1] \in DOMAIN sample_geno THEN sample_geno
           ELSE Put(sample_geno, args[Len(results) + 1], EmptyDict)
    /\ UNCHANGED <<refdata, probe>>

NextBatch ==
    \/ \E pos \in BatchSites : \E gts \in [1..Len(args) -> BatchCalls] :
          ReadBatchLine(pos, gts)
    \/ ClassifySample

SpecBatch == InitBatch /\ [][NextBatch]_vars

\* ------------------------------------------------------------------------
\* get_ancestors step by step, on any parent map
\* ------------------------------------------------------------------------
LoopKeys == {"F", "G", "H"}

LoopNames == LoopKeys \cup {"K"}

\* the parent maps over the keys: every node absent or with any parent,
\* itself and members of a cycle included
ParentMaps == UNION {[S -> LoopNames] : S \in SUBSET LoopKeys}

\* the frame of a call: ancestors = [], current = node, seen = set()
InitLoop ==
    /\ script = "proYHapLZ.py"
    /\ het_mode = "moderate"
    /\ isogg_file = "O_F.csv"
    /\ phylo_tree \in ParentMaps
    /\ node_snps = EmptyDict
    /\ snp_to_info = EmptyDict
    /\ pos_to_haplo = [keys |-> <<>>, at |-> EmptyDict]
    /\ sample_geno = EmptyDict
    /\ results = <<>>
    /\ \E node \in LoopNames :
          /\ args = <<"get_ancestors", node>>
          /\ ret = [current |-> node, seen |-> {}, ancestors |-> <<>>,
                    returned |-> FALSE]

\* the body of a loop whose test is "current in self.phylo_tree" alone
LoopBody_unseen ==
    /\ ~ret.returned
    /\ ret.current \in DOMAIN phylo_tree
    /\ Len(ret.ancestors) <= Cardinality(LoopNames)
    /\ ret' = [current |-> phylo_tree[ret.current],
               seen |-> ret.seen \cup {ret.current},
               ancestors |-> Append(ret.ancestors, phylo_tree[ret.current]),
               returned |-> FALSE]
    /\ UNCHANGED <<refdata, sample_geno, results, args>>

\* while current in self.phylo_tree and current not in seen: one pass
LoopBody ==
    /\ ~ret.returned
    /\ ret.current \in DOMAIN phylo_tree
    /\ ret.current \notin ret.seen
    /\ ret' = [current |-> phylo_tree[ret.current],
               seen |-> ret.seen \cup {ret.current},
               ancestors |-> Append(ret.ancestors, phylo_tree[ret.current]),
               returned |-> FALSE]
    /\ UNCHANGED <<refdata, sample_geno, results, args>>

\* the loop test fails: return ancestors
LoopReturn ==
    /\ ~ret.returned
    /\ ~(ret.current \in DOMAIN phylo_tree /\ ret.current \notin ret.seen)
    /\ ret' = [ret EXCEPT !.returned = TRUE]
    /\ UNCHANGED <<refdata, sample_geno, results, args>>

NextLoop == LoopBody \/ LoopReturn

\* a call runs on: the loop test is evaluated and a pass or the return
\* is taken
SpecLoop == InitLoop /\ [][NextLoop]_vars /\ WF_vars(NextLoop)

\* ------------------------------------------------------------------------
\* The same sample classified under two policies
\* ------------------------------------------------------------------------
\* as Init, on the index with a chain of nodes; args lists the het_mode of
\* each classify_sample call made
InitModes ==
    /\ script = "proYHapLZ.py"
    /\ het_mode \in HetModes
    /\ isogg_file = "O_chain.csv"
    /\ phylo_tree = ParsedTree.phylo_tree
    /\ node_snps = ParsedTree.node_snps
    /\ snp_to_info = load_isogg(isogg_file).snp_to_info
    /\ pos_to_haplo = load_isogg(isogg_file).pos_to_haplo
    /\ sample_geno = EmptyDict
    /\ results = <<>>
    /\ args = <<>>
    /\ ret = None

\* classify_sample on the classifier as it stands
ClassifyUnder ==
    /\ Len(results) < MaxClassify
    /\ IF args = <<>> THEN TRUE ELSE args[Len(args)] # het_mode
    /\ results' = Append(results, classify_sample(SampleName, sample_geno))
    /\ args' = Append(args, het_mode)
    /\ UNCHANGED <<refdata, sample_geno, ret>>

\* HaplogroupClassifier(isogg_file, mode): a classifier for the same index
\* with another het_mode
Rebuild(mode) ==
    /\ results # <<>>
    /\ Len(results) < MaxClassify
    /\ args[Len(args)] = het_mode
    /\ mode # het_mode
    /\ het_mode' = mode
    /\ phylo_tree' = ParsedTree.phylo_tree
    /\ node_snps' = ParsedTree.node_snps
    /\ snp_to_info' = load_isogg(isogg_file).snp_to_info
    /\ pos_to_haplo' = load_isogg(isogg_file).pos_to_haplo
    /\ UNCHANGED <<script, isogg_file, sample_geno, results, probe>>

NextModes ==
    \/ \E pos \in VcfPositions(isogg_file) : \E gt \in GenotypeCalls(pos) :
          ReadVcfLine(pos, gt)
    \/ ClassifyUnder
    \/ \E mode \in HetModes : Rebuild(mode)

SpecModes == InitModes /\ [][NextModes]_vars
\* ------------------------------------------------------------------------
\* Reading a sample for the properties.  The status of an index entry is
\* read from the allele the call names, not through check_genotype: a
\* homozygous call names REF (0/0) or ALT (1/1) of its VCF line, and that
\* allele is the expected derived or the expected ancestral allele.
\* ------------------------------------------------------------------------
Result == results[1]

IsUnknown(r) == r.main_branch = "Unknown" \/ r.haplogroup = "Unknown"

Conflicts(r) ==
    IF DOMAIN r.diagnostics = {} THEN <<>> ELSE r.diagnostics.ancestor_conflicts

BranchNote(r) ==
    IF DOMAIN r.diagnostics = {} THEN "" ELSE r.diagnostics.main_branch_note

IndexEntries ==
    Flatten(MapSeq(pos_to_haplo.keys, LAMBDA pos :
        MapSeq(pos_to_haplo.at[pos], LAMBDA e :
            [haplo |-> e.haplo, snp_name |-> e.snp_name, pos |-> pos,
             ref |-> e.ref, alt |-> e.alt])))

IndexHaplos == {IndexEntries[i].haplo : i \in 1..Len(IndexEntries)}

HomAllele(call) ==
    IF IsHomRef(call[1]) THEN Upper(call[2])
    ELSE IF IsHomAlt(call[1]) THEN Upper(call[3])
    ELSE ""

Reading(pos, ref, alt) ==
    IF pos \notin DOMAIN sample_geno THEN MISSING
    ELSE LET call == sample_geno[pos]
         IN IF IsHet(call[1]) THEN HETEROZYGOUS
            ELSE IF HomAllele(call) = "" THEN MISSING
            ELSE IF ref # "" /\ alt # "" /\ HomAllele(call) = alt THEN DERIVED
            ELSE IF ref # "" /\ alt # "" /\ HomAllele(call) = ref THEN ANCESTRAL
            ELSE IF IsHomAlt(call[1]) THEN DERIVED
            ELSE ANCESTRAL

EntryReading(e) == Reading(e.pos, e.ref, e.alt)

\* derived after the heterozygous policy
Supports(status) ==
    status = DERIVED \/ (status = HETEROZYGOUS /\ het_mode # "strict")

EntriesOf(h) == {i \in 1..Len(IndexEntries) : IndexEntries[i].haplo = h}

SupportCount(h) ==
    Cardinality({i \in EntriesOf(h) : Supports(EntryReading(IndexEntries[i]))})

DerivedSupported(h) == SupportCount(h) > 0

HasReading(h, status) ==
    \E i \in EntriesOf(h) : EntryReading(IndexEntries[i]) = status

DefiningReading(branch) ==
    LET snp == MAIN_BRANCH_DEFINING_SNPS[branch]
    IN IF snp \in DOMAIN snp_to_info
       THEN Reading(snp_to_info[snp][1], snp_to_info[snp][2], snp_to_info[snp][3])
       ELSE MISSING

CandidatesOf(branch) ==
    {h \in IndexHaplos : DerivedSupported(h) /\ get_main_branch(h) = branch}

\* a root branch X whose defining marker is indexed, and an index entry of a
\* tree child Y of X
ChildPairs ==
    {p \in Range(MAIN_BRANCHES) \X Range(IndexEntries) :
        /\ p[2].haplo \in DOMAIN phylo_tree
        /\ phylo_tree[p[2].haplo] = p[1]}

DefiningPos(branch) == snp_to_info[MAIN_BRANCH_DEFINING_SNPS[branch]][1]

DefiningIndexed(branch) == MAIN_BRANCH_DEFINING_SNPS[branch] \in DOMAIN snp_to_info

\* the sample holds exactly a call at M1 reading s1 and a call at M2 reading s2
TwoCalls(X, e, s1, s2) ==
    /\ DefiningIndexed(X)
    /\ DOMAIN sample_geno = {DefiningPos(X), e.pos}
    /\ DefiningPos(X) # e.pos
    /\ IsHomRef(sample_geno[DefiningPos(X)][1]) \/ IsHomAlt(sample_geno[DefiningPos(X)][1])
    /\ IsHomRef(sample_geno[e.pos][1]) \/ IsHomAlt(sample_geno[e.pos][1])
    /\ DefiningReading(X) = s1
    /\ EntryReading(e) = s2

\* C1: root branch X (marker M1), child Y (marker M2), M1 homozygous derived,
\* M2 homozygous derived, no other call: the result is Y under X, with
\* confidence at least 0.85 and no ancestor conflict, under every policy.
C1_DerivedDerived ==
    results # <<>> =>
        \A p \in ChildPairs :
            TwoCalls(p[1], p[2], DERIVED, DERIVED) =>
                /\ Result.main_branch = p[1]
                /\ Result.haplogroup = p[2].haplo
                /\ Result.confidence >= 85
                /\ Conflicts(Result) = <<>>

C1_Witness ==
    /\ results # <<>>
    /\ het_mode = "strict"
    /\ \E p \in ChildPairs :
          /\ TwoCalls(p[1], p[2], DERIVED, DERIVED)
          /\ Result.haplogroup = p[2].haplo
          /\ sample_geno[p[2].pos][1] = "0/0"

WithoutCall(sg, pos) == [q \in (DOMAIN sg) \ {pos} |-> sg[q]]

\* C2: M1 homozygous ancestral, M2 homozygous derived, no other call: the
\* terminal node is X or Y, the conflict list records the contradiction, and
\* the confidence is below that of the same sample without the call at M1.
C2_ContradictionRecorded ==
    results # <<>> =>
        \A p \in ChildPairs :
            TwoCalls(p[1], p[2], ANCESTRAL, DERIVED) =>
                /\ Result.haplogroup \in {p[1], p[2].haplo}
                /\ Conflicts(Result) # <<>>
                /\ Result.confidence <
                      classify_sample(SampleName,
                          WithoutCall(sample_geno, DefiningPos(p[1]))).confidence

OneCall(X, e) ==
    /\ DOMAIN sample_geno = {e.pos}
    /\ DefiningIndexed(X) => DefiningPos(X) # e.pos
    /\ IsHomRef(sample_geno[e.pos][1]) \/ IsHomAlt(sample_geno[e.pos][1])
    /\ EntryReading(e) = DERIVED

\* C9: no call at M1's position, M2 homozygous derived, no other call: root
\* branch X, terminal node Y, the diagnostics say the branch was inferred
\* from downstream evidence, and the confidence is at most 0.85.
C9_InferredBranch ==
    results # <<>> =>
        \A p \in ChildPairs :
            OneCall(p[1], p[2]) =>
                /\ Result.main_branch = p[1]
                /\ Result.haplogroup = p[2].haplo
                /\ StartsWith(BranchNote(Result), "inferred from ")
                /\ Result.diagnostics.main_branch_status = MISSING
                /\ Result.confidence <= 85

C9_Witness ==
    /\ results # <<>>
    /\ \E p \in ChildPairs :
          /\ OneCall(p[1], p[2])
          /\ DefiningIndexed(p[1])
          /\ Result.haplogroup = p[2].haplo
          /\ Result.confidence = 50

NoOverlap == DOMAIN sample_geno \cap Range(pos_to_haplo.keys) = {}

\* C10: a sample that shares no position with the Position Index gets
\* Unknown / Unknown with confidence 0, count 0, no evidence and a note;
\* every Unknown result has confidence 0 and a non-empty note.
C10_UnknownResult ==
    results # <<>> =>
        /\ NoOverlap =>
              /\ Result.main_branch = "Unknown"
              /\ Result.haplogroup = "Unknown"
              /\ Result.confidence = 0
              /\ Result.n_snps = 0
              /\ Result.evidence = <<>>
              /\ Result.note # ""
        /\ IsUnknown(Result) => Result.confidence = 0 /\ Result.note # ""

C10_Witness ==
    /\ results # <<>>
    /\ NoOverlap
    /\ DOMAIN sample_geno # {}
    /\ IsHomAlt(sample_geno[900][1])
    /\ IsUnknown(Result)

\* ------------------------------------------------------------------------
\* Candidates, their order and their ancestor chains, read from the sample
\* ------------------------------------------------------------------------
\* a comes before b in (depth descending, supporting-marker count descending)
Outranks(a, b) ==
    \/ get_depth(a) > get_depth(b)
    \/ get_depth(a) = get_depth(b) /\ SupportCount(a) > SupportCount(b)

\* the tree ancestors of h that lie below the root branch node
Between(h, branch) ==
    LET a == get_ancestors(h)
        stop == {i \in 1..Len(a) : a[i] = branch}
        n == IF stop = {} THEN Len(a) ELSE Min(stop) - 1
    IN IF h = branch THEN {} ELSE {a[i] : i \in 1..n}

\* ancestral-supported, not derived-supported, not saved by a heterozygous
\* marker under moderate / lenient
Contradicts(anc) ==
    /\ HasReading(anc, ANCESTRAL)
    /\ ~HasReading(anc, DERIVED)
    /\ ~(HasReading(anc, HETEROZYGOUS) /\ het_mode # "strict")

ChainContradictions(h, branch) == {anc \in Between(h, branch) : Contradicts(anc)}

CleanCandidates(branch) ==
    {h \in CandidatesOf(branch) : ChainContradictions(h, branch) = {}}

\* number of derived-supporting markers over the candidates of a branch
TotalSupport(branch) ==
    Cardinality({i \in 1..Len(IndexEntries) :
        /\ get_main_branch(IndexEntries[i].haplo) = branch
        /\ Supports(EntryReading(IndexEntries[i]))})

\* C3: the terminal node is the first candidate of the chosen root branch, in
\* (depth descending, count descending) order, whose ancestor chain holds no
\* contradiction, whenever such a candidate exists.
C3_FirstCleanCandidate ==
    (results # <<>> /\ ~IsUnknown(Result)) =>
        LET clean == CleanCandidates(Result.main_branch)
        IN clean # {} =>
              /\ Result.haplogroup \in clean
              /\ \A c \in clean : ~Outranks(c, Result.haplogroup)

ConflictNames(branch) ==
    {anc \o "(ancestral)" :
        anc \in UNION {ChainContradictions(c, branch) : c \in CandidatesOf(branch)}}

AllContradicted(branch) ==
    /\ CandidatesOf(branch) # {}
    /\ \A c \in CandidatesOf(branch) : ChainContradictions(c, branch) # {}

\* C4: when every candidate of the chosen root branch has a chain
\* contradiction, the result is still classified, the terminal node is the
\* candidate with the fewest chain contradictions (ties to the earlier one in
\* the order), and the conflict list names conflicting ancestors.
C4_FewestContradictions ==
    (results # <<>> /\ ~IsUnknown(Result) /\ AllContradicted(Result.main_branch)) =>
        LET branch == Result.main_branch
            t == Result.haplogroup
            n(c) == Cardinality(ChainContradictions(c, branch))
        IN /\ t \in CandidatesOf(branch)
           /\ \A c \in CandidatesOf(branch) :
                 /\ n(t) <= n(c)
                 /\ n(c) = n(t) => ~Outranks(c, t)
           /\ Conflicts(Result) # <<>>
           /\ Range(Conflicts(Result)) \subseteq ConflictNames(branch)

Rule1Branches ==
    {i \in 1..Len(MAIN_BRANCHES) :
        /\ Supports(DefiningReading(MAIN_BRANCHES[i]))
        /\ CandidatesOf(MAIN_BRANCHES[i]) # {}}

\* C5: rule 1: the first root branch in MAIN_BRANCHES order whose defining
\* marker is derived-supported and which has a derived-supported candidate is
\* the chosen root branch, whatever evidence the other branches have.
C5_DefiningMarkerFirst ==
    (results # <<>> /\ Rule1Branches # {}) =>
        Result.main_branch = MAIN_BRANCHES[Min(Rule1Branches)]

C5_Witness ==
    /\ results # <<>>
    /\ Cardinality(Rule1Branches) >= 2
    /\ Result.main_branch = "O"
    /\ TotalSupport("R") > TotalSupport("O")

Rule2Eligible ==
    {i \in 1..Len(MAIN_BRANCHES) :
        /\ CandidatesOf(MAIN_BRANCHES[i]) # {}
        /\ DefiningReading(MAIN_BRANCHES[i]) # ANCESTRAL}

Rule2Best ==
    {i \in Rule2Eligible :
        \A j \in Rule2Eligible :
            TotalSupport(MAIN_BRANCHES[i]) >= TotalSupport(MAIN_BRANCHES[j])}

\* C6: rule 2: with no branch under rule 1, the branches whose defining
\* marker is Ancestral are excluded and the remaining branch with the highest
\* total of derived-supporting markers is chosen, a tie going to the branch
\* earlier in MAIN_BRANCHES.
C6_DownstreamBranch ==
    (results # <<>> /\ Rule1Branches = {} /\ Rule2Eligible # {}) =>
        Result.main_branch = MAIN_BRANCHES[Min(Rule2Best)]

PreBranchSupported ==
    /\ F_DEFINING_SNP \in DOMAIN snp_to_info
    /\ Supports(Reading(snp_to_info[F_DEFINING_SNP][1],
                        snp_to_info[F_DEFINING_SNP][2],
                        snp_to_info[F_DEFINING_SNP][3]))

\* C7: when rules 1 and 2 select no branch and the pre-branch marker M89 is
\* derived-supported, the result is F / F in the lowest confidence tier.
C7_PreBranch ==
    (/\ results # <<>>
     /\ Rule1Branches = {}
     /\ Rule2Eligible = {}
     /\ PreBranchSupported) =>
        /\ Result.main_branch = "F"
        /\ Result.haplogroup = "F"
        /\ Result.confidence <= 50

\* C8: a classified node with an empty conflict list has no ancestor, between
\* it and the chosen root branch, that is Ancestral without Derived, unless
\* (moderate / lenient) that ancestor also has a Heterozygous marker.
C8_ChainMonotone ==
    (results # <<>> /\ ~IsUnknown(Result) /\ Conflicts(Result) = <<>>) =>
        \A anc \in Between(Result.haplogroup, Result.main_branch) :
            ~Contradicts(anc)

C8_Witness ==
    /\ results # <<>>
    /\ het_mode = "moderate"
    /\ Result.haplogroup = "O2a2b"
    /\ Conflicts(Result) = <<>>
    /\ HasReading("O2a2", ANCESTRAL)
    /\ HasReading("O2a2", HETEROZYGOUS)
    /\ ~HasReading("O2a2", DERIVED)

\* ------------------------------------------------------------------------
\* The shape of a Classification Result
\* ------------------------------------------------------------------------
ResultFields ==
    {"sample", "main_branch", "haplogroup", "n_snps", "confidence",
     "het_count", "evidence", "note", "diagnostics"}

DiagnosticFields ==
    {"main_branch_status", "main_branch_note", "ancestor_conflicts",
     "total_derived_haplos", "candidates_in_branch"}

IndexSnps == {IndexEntries[i].snp_name : i \in 1..Len(IndexEntries)}

WellFormedDiagnostics(d) ==
    \/ DOMAIN d = {}
    \/ /\ DOMAIN d = DiagnosticFields
       /\ d.main_branch_status \in GenotypeStatus
       /\ d.ancestor_conflicts \in Seq({h \o "(ancestral)" : h \in IndexHaplos})
       /\ d.total_derived_haplos \in 1..Cardinality(IndexHaplos)
       /\ d.candidates_in_branch \in 1..d.total_derived_haplos

WellFormed(r) ==
    /\ DOMAIN r = ResultFields
    /\ r.sample = SampleName
    /\ r.main_branch \in Range(MAIN_BRANCHES) \cup {"F", "Unknown"}
    /\ r.haplogroup \in IndexHaplos \cup {r.main_branch}
    /\ r.n_snps \in 0..Len(IndexEntries)
    /\ r.confidence \in 0..100
    /\ r.het_count \in 0..Cardinality(DOMAIN sample_geno)
    /\ r.evidence \in Seq(IndexSnps \cup {F_DEFINING_SNP})
    /\ Len(r.evidence) <= r.n_snps
    /\ r.note \in STRING
    /\ WellFormedDiagnostics(r.diagnostics)

\* C11: classify_sample is total: Classify is enabled for every genotype
\* map that was read, under every het mode, and whatever it stores is one
\* well-formed Classification Result with its confidence in [0, 1].
C11_TotalWellFormed ==
    \A i \in 1..Len(results) : WellFormed(results[i])

C11_Witness ==
    /\ results # <<>>
    /\ isogg_file = "O_F.csv"
    /\ DOMAIN sample_geno = {100, 200, 300, 400, 900}
    /\ sample_geno[100][1] = "1/2"
    /\ EntryReading([pos |-> 200, ref |-> "C", alt |-> "T"]) = DERIVED
    /\ sample_geno[300][1] = "0/1"
    /\ sample_geno[400][1] = "0/0"
    /\ sample_geno[900][1] = "./."
    /\ WellFormed(Result)

HetCalls ==
    Cardinality({pos \in DOMAIN sample_geno \cap Range(pos_to_haplo.keys) :
                    IsHet(sample_geno[pos][1])})

DirectlySupported(branch) ==
    /\ branch \in Range(MAIN_BRANCHES)
    /\ Supports(DefiningReading(branch))

ExpectedBase(branch, n) ==
    IF DirectlySupported(branch)
    THEN (IF n >= 5 THEN 95 ELSE IF n >= 3 THEN 90 ELSE 85)
    ELSE (IF n >= 10 THEN 85 ELSE IF n >= 5 THEN 75 ELSE IF n >= 3 THEN 65 ELSE 50)

ExpectedConfidence(r) ==
    LET raw == ExpectedBase(r.main_branch, SupportCount(r.haplogroup))
                 - (IF Conflicts(r) # <<>> THEN 15 ELSE 0)
                 - (IF HetCalls > 10 THEN 5 ELSE 0)
    IN IF raw < 0 THEN 0 ELSE IF raw > 100 THEN 100 ELSE raw

\* C13: the confidence of a classified result is the base of its tier (by
\* direct support of the root branch's defining marker and the marker count
\* of the terminal node), less 0.15 when a conflict was recorded, less 0.05
\* when more than ten calls are heterozygous, clamped to [0, 1].
C13_ConfidenceFormula ==
    (results # <<>> /\ ~IsUnknown(Result)) =>
        Result.confidence = ExpectedConfidence(Result)

C13_Witness ==
    /\ results # <<>>
    /\ ~IsUnknown(Result)
    /\ DirectlySupported(Result.main_branch)
    /\ Conflicts(Result) # <<>>
    /\ HetCalls > 10
    /\ Result.confidence = 65

\* ------------------------------------------------------------------------
\* check_genotype: the call that was made and what it returned
\* ------------------------------------------------------------------------
Called == args # None

HomAltCalls == {"1/1", "1|1", "1"}

HomRefCalls == {"0/0", "0|0", "0"}

HetCallValues == {"0/1", "0|1", "1/0", "1|0"}

NoCalls == {"./.", ".|.", ".", ""}

\* the observed alleles, compared without regard to case
Observed(x) ==
    CASE x = "a" -> "A" [] x = "g" -> "G" [] OTHER -> x

BothKnown == args[4] # "" /\ args[5] # ""

\* expected ancestral a = args[4], expected derived d = args[5]
ForwardOrientation ==
    /\ BothKnown
    /\ args[4] # args[5]
    /\ Observed(args[2]) = args[4]
    /\ Observed(args[3]) = args[5]

ReversedOrientation ==
    /\ BothKnown
    /\ args[4] # args[5]
    /\ Observed(args[2]) = args[5]
    /\ Observed(args[3]) = args[4]

\* C14: with distinct known expected alleles, a forward call resolves
\* hom-alt / het / hom-ref to Derived / Heterozygous / Ancestral and a
\* reversed call resolves hom-ref / het / hom-alt to the same three.
C14_OrientationSymmetry ==
    Called =>
        /\ ForwardOrientation =>
              /\ args[1] \in HomAltCalls => ret = DERIVED
              /\ args[1] \in HetCallValues => ret = HETEROZYGOUS
              /\ args[1] \in HomRefCalls => ret = ANCESTRAL
        /\ ReversedOrientation =>
              /\ args[1] \in HomRefCalls => ret = DERIVED
              /\ args[1] \in HetCallValues => ret = HETEROZYGOUS
              /\ args[1] \in HomAltCalls => ret = ANCESTRAL

C14_Witness ==
    /\ Called
    /\ ReversedOrientation
    /\ args[1] = "0|0"
    /\ args[2] = "g"
    /\ ret = DERIVED

\* C15: every no-call spelling ('./.', '.|.', '.', '') gives Missing,
\* whatever the observed and expected alleles.
C15_NoCallMissing ==
    (Called /\ args[1] \in NoCalls) => ret = MISSING

\* C16: when an expected allele is unknown, or both are known and the
\* observed alleles match neither orientation, the status follows the call
\* alone: hom-alt Derived, het Heterozygous, hom-ref Ancestral, any other
\* present call Mismatch; the status is always one of the five.
ZygosityOnly ==
    \/ ~BothKnown
    \/ /\ ~(Observed(args[2]) = args[4] /\ Observed(args[3]) = args[5])
       /\ ~(Observed(args[2]) = args[5] /\ Observed(args[3]) = args[4])

C16_ZygosityFallback ==
    Called =>
        /\ ret \in GenotypeStatus
        /\ ZygosityOnly =>
              /\ args[1] \in HomAltCalls => ret = DERIVED
              /\ args[1] \in HetCallValues => ret = HETEROZYGOUS
              /\ args[1] \in HomRefCalls => ret = ANCESTRAL
              /\ args[1] \notin (HomAltCalls \cup HetCallValues
                                   \cup HomRefCalls \cup NoCalls)
                    => ret = MISMATCH

C16_Witness ==
    /\ Called
    /\ BothKnown
    /\ ZygosityOnly
    /\ args[1] = "1/2"
    /\ ret = MISMATCH

\* ------------------------------------------------------------------------
\* The heterozygous policy
\* ------------------------------------------------------------------------
HomSupported(h) == HasReading(h, DERIVED)

HetSupported(h) == HasReading(h, HETEROZYGOUS)

ByRule1(r) ==
    /\ r.main_branch \in Range(MAIN_BRANCHES)
    /\ BranchNote(r) = MAIN_BRANCH_DEFINING_SNPS[r.main_branch] \o " derived"

\* root branches whose defining marker reads Heterozygous and which have a
\* node with a homozygous derived or heterozygous marker
HetDefined ==
    {i \in 1..Len(MAIN_BRANCHES) :
        /\ DefiningReading(MAIN_BRANCHES[i]) = HETEROZYGOUS
        /\ \E h \in IndexHaplos :
              /\ get_main_branch(h) = MAIN_BRANCHES[i]
              /\ HomSupported(h) \/ HetSupported(h)}

\* C17: under strict only homozygous derived markers make a node a
\* candidate and only a homozygous derived defining marker selects a root
\* branch by rule 1; under moderate and lenient a heterozygous marker counts
\* for its node and for rule 1.
C17_HetPolicy ==
    results # <<>> =>
        /\ het_mode = "strict" =>
              /\ (\A h \in IndexHaplos : ~HomSupported(h)) => IsUnknown(Result)
              /\ ~IsUnknown(Result) =>
                    /\ HomSupported(Result.haplogroup)
                    /\ Result.diagnostics.total_derived_haplos =
                          Cardinality({h \in IndexHaplos : HomSupported(h)})
                    /\ ByRule1(Result) =>
                          DefiningReading(Result.main_branch) = DERIVED
        /\ het_mode # "strict" =>
              /\ ~IsUnknown(Result) =>
                    Result.diagnostics.total_derived_haplos =
                        Cardinality({h \in IndexHaplos :
                                        HomSupported(h) \/ HetSupported(h)})
              /\ \A i \in HetDefined :
                    (\A j \in Rule1Branches : j >= i) =>
                        /\ Result.main_branch = MAIN_BRANCHES[i]
                        /\ ByRule1(Result)

C17_Witness ==
    /\ results # <<>>
    /\ het_mode = "strict"
    /\ HetDefined # {}
    /\ \E h \in IndexHaplos : HetSupported(h) /\ ~HomSupported(h)
    /\ ~IsUnknown(Result)
    /\ ~ByRule1(Result)
    /\ Result.diagnostics.total_derived_haplos = 1

\* a node whose derived support is heterozygous only
HetOnly(h) == HetSupported(h) /\ ~HomSupported(h)

\* the homozygous call naming the derived allele of entry e at its VCF line
HomDerivedCall(e, call) ==
    IF e.ref # "" /\ e.alt # "" /\ Upper(call[2]) = e.alt /\ Upper(call[3]) = e.ref
    THEN <<"0/0", call[2], call[3]>>
    ELSE <<"1/1", call[2], call[3]>>

\* the sample with every heterozygous call at a marker of h made homozygous
\* derived
AsHomozygous(sg, h) ==
    [pos \in DOMAIN sg |->
        IF IsHet(sg[pos][1]) /\ \E i \in EntriesOf(h) : IndexEntries[i].pos = pos
        THEN HomDerivedCall(
                 IndexEntries[CHOOSE i \in EntriesOf(h) : IndexEntries[i].pos = pos],
                 sg[pos])
        ELSE sg[pos]]

\* C18: under moderate and lenient, a result whose terminal node is
\* supported by heterozygous calls only has diagnostics different from those
\* of the same sample with these calls homozygous derived.
C18_HetTagged ==
    (/\ results # <<>>
     /\ het_mode # "strict"
     /\ ~IsUnknown(Result)
     /\ HetOnly(Result.haplogroup)) =>
        classify_sample(SampleName,
            AsHomozygous(sample_geno, Result.haplogroup)).diagnostics
          # Result.diagnostics

\* ------------------------------------------------------------------------
\* The tree
\* ------------------------------------------------------------------------
\* a classifier has been built: its tree holds the nodes of the text
Built == node_snps # EmptyDict

Asked(method) == args # None /\ args[1] = method

IsRoot(n) == n \notin DOMAIN phylo_tree

\* s is the parent chain of n up to a root, nearest ancestor first
ParentChain(n, s) ==
    /\ IsRoot(n) <=> s = <<>>
    /\ s # <<>> =>
          /\ s[1] = phylo_tree[n]
          /\ \A i \in 1..(Len(s) - 1) : s[i + 1] = phylo_tree[s[i]]
          /\ IsRoot(s[Len(s)])

\* C19: for every node N of a built tree, get_ancestors(N) is the parent
\* chain of N nearest first and never contains N, a root has depth 0, and
\* get_depth(N) is the length of get_ancestors(N).
C19_DepthAndAncestors ==
    /\ Asked("get_ancestors") =>
          /\ ParentChain(args[2], ret)
          /\ args[2] \notin Range(ret)
    /\ Asked("get_depth") =>
          /\ IsRoot(args[2]) => ret = 0
          /\ ret = Len(get_ancestors(args[2]))
          /\ ParentChain(args[2], get_ancestors(args[2]))

\* the parent each line of a tree text gets when it is read
LineParents(text) ==
    {<<text[i][2], parse_tree(SubSeq(text, 1, i)).phylo_tree[text[i][2]]>> :
        i \in {j \in 1..Len(text) :
                  text[j][2] \in DOMAIN parse_tree(SubSeq(text, 1, j)).phylo_tree}}

\* a node beneath a node of the same name, or under two different parents
Invalid(text) ==
    \/ \E lp \in LineParents(text) : lp[1] = lp[2]
    \/ \E lp1, lp2 \in LineParents(text) : lp1[1] = lp2[1] /\ lp1[2] # lp2[2]

\* C20: a tree text that lists a node beneath itself, or one name under two
\* different parents, is refused: no classifier is built from it.
C20_InvalidTreeRefused == Invalid(TreeText(script)) => ~Built

\* ------------------------------------------------------------------------
\* The marker index
\* ------------------------------------------------------------------------
\* the identifiers a line defines: its primary name and its aliases
Names(row) == {row.snp_name} \cup {row.aliases[i] : i \in 1..Len(row.aliases)}

\* the first line read that defines the identifier
FirstLine(name) == Min({i \in 1..Len(args) : name \in Names(args[i])})

\* C21: lookup of an identifier returns the position/allele tuple of the
\* first line that defines it, as primary name or as alias; a later line
\* never overwrites it.
C21_FirstSeenWins ==
    isogg_file = RowsFile =>
        \A name \in DOMAIN snp_to_info :
            snp_to_info[name] = <<args[FirstLine(name)].pos,
                                  args[FirstLine(name)].ref,
                                  args[FirstLine(name)].alt>>

\* the nodes of the Tree Model: every name read from the tree text
TreeNodes == DOMAIN node_snps

\* n is the root branch or has it among its tree ancestors
UnderBranch(n, branch) == n = branch \/ branch \in Range(get_ancestors(n))

\* C22: the terminal node of a classified result is a node of the tree and
\* lies under the chosen root branch in the tree.
C22_TerminalInTree ==
    (results # <<>> /\ ~IsUnknown(Result)) =>
        /\ Result.haplogroup \in TreeNodes
        /\ UnderBranch(Result.haplogroup, Result.main_branch)

\* C23: the het_count of a result is the number of positions of the
\* sample's genotype map whose call is heterozygous, indexed or not.
C23_HetCountAllPositions ==
    results # <<>> =>
        Result.het_count =
            Cardinality({p \in DOMAIN sample_geno :
                            sample_geno[p][1] \in HetCallValues})

\* C24: a classify_sample call leaves the tree, the marker index, the
\* Position Index with its keys, the heterozygous policy and the sample's
\* genotype map as they were.
C24_ReferenceDataUnchanged ==
    [][results' # results =>
          /\ phylo_tree' = phylo_tree
          /\ node_snps' = node_snps
          /\ snp_to_info' = snp_to_info
          /\ pos_to_haplo' = pos_to_haplo
          /\ het_mode' = het_mode
          /\ sample_geno' = sample_geno]_vars

C24_Witness ==
    /\ Len(results) = 2
    /\ ~IsUnknown(results[2])
    /\ Cardinality(DOMAIN sample_geno) >= 3
    /\ 900 \in DOMAIN sample_geno
    /\ pos_to_haplo = load_isogg(isogg_file).pos_to_haplo
    /\ snp_to_info = load_isogg(isogg_file).snp_to_info
    /\ phylo_tree = ParsedTree.phylo_tree

\* ------------------------------------------------------------------------
\* The batch
\* ------------------------------------------------------------------------
\* the result of the sample classified alone
Alone(sample) == classify_sample(sample, MapOf(sample_geno, sample))

InOrder ==
    /\ Len(results) <= Len(args)
    /\ \A i \in 1..Len(results) :
          /\ results[i].sample = args[i]
          /\ results[i] = Alone(args[i])

NodeLines(text) == {i \in 1..Len(text) : text[i][2] \notin {"Y", "Root", ""}}

\* the node lines before line i with strictly smaller indentation
LowerBefore(text, i) ==
    {j \in NodeLines(text) : j < i /\ text[j][1] < text[i][1]}

\* C26: for every node line of the tree text, the parent recorded for its
\* node is the node of the nearest preceding line with strictly smaller
\* indentation, and a node without such a line has no parent.
C26_IndentationRule ==
    Built =>
        \A i \in NodeLines(TreeText(script)) :
            LET text == TreeText(script)
                node_name == text[i][2]
            IN IF LowerBefore(text, i) = {}
               THEN node_name \notin DOMAIN phylo_tree
               ELSE /\ node_name \in DOMAIN phylo_tree
                    /\ phylo_tree[node_name] = text[Max(LowerBefore(text, i))][2]

\* C27: get_main_branch returns None for every identifier of
\* INTERMEDIATE_NODES, so that an intermediate node is under no root branch.
C27_IntermediateNoBranch ==
    (Asked("get_main_branch") /\ args[2] \in INTERMEDIATE_NODES) => ret = None

\* C28: a classified result never names a root branch whose defining marker
\* reads Ancestral in the sample, whatever its descendants carry.
C28_NoAncestralBranch ==
    (/\ results # <<>>
     /\ ~IsUnknown(Result)
     /\ Result.main_branch \in Range(MAIN_BRANCHES)) =>
        DefiningReading(Result.main_branch) # ANCESTRAL

C28_Witness ==
    /\ results # <<>>
    /\ DefiningReading("O") = ANCESTRAL
    /\ TotalSupport("O") >= TotalSupport("R")
    /\ TotalSupport("O") > 0
    /\ Result.main_branch = "R"
    /\ DefiningReading("R") = MISSING

\* ------------------------------------------------------------------------
\* Termination of get_ancestors
\* ------------------------------------------------------------------------
\* the passes made so far have each used up a key not seen before
LoopMeasure ==
    /\ ret.seen \subseteq DOMAIN phylo_tree
    /\ Len(ret.ancestors) = Cardinality(ret.seen)
    /\ Len(ret.ancestors) <= Cardinality(DOMAIN phylo_tree)
    /\ ret.returned => ret.ancestors = get_ancestors(args[2])

\* C29: on every parent map, cyclic or not, a call of get_ancestors
\* returns, with at most as many entries as the map has keys.
C29_AncestorsTerminate == [](LoopMeasure) /\ <>(ret.returned)

C29_Witness ==
    /\ Asked("get_ancestors")
    /\ args[2] = "G"
    /\ phylo_tree = [n \in {"F", "G", "H"} |->
                        CASE n = "F" -> "G" [] n = "G" -> "H" [] n = "H" -> "F"]
    /\ ret.returned
    /\ ret.ancestors = <<"H", "F", "G">>

\* ------------------------------------------------------------------------
\* moderate and lenient
\* ------------------------------------------------------------------------
Tolerant == {"moderate", "lenient"}

====
